---- MODULE Spec2Model ----
(***************************************************************************)
(* A model of src/src/calc.cpp: process_line(current, line) with its       *)
(* helpers parse_op, skip_ws, parse_arg, unary and binary.                  *)
(*                                                                         *)
(* A line is a sequence of one-character strings.  The cursor i is the     *)
(* 0-based index of the C++ code.  A double is modelled as an exact        *)
(* rational <<"q", n, d>> while numerator and denominator stay below       *)
(* IntLimit, and as an uninterpreted term <<tag, operands>> beyond that    *)
(* (and for irrational results of sqrt and pow); rounding is not modelled. *)
(***************************************************************************)
EXTENDS Integers, Sequences, FiniteSets, TLC

\* ------------------------------------------------------------- bounds
MaxTail == 3
MaxArgs == 3
IntLimit == 2000000000

\* -------------------------------------------------- program constants
max_decimal_digits == 10

\* ------------------------------------------------------------- values
Abs(n) == IF n < 0 THEN -n ELSE n

RECURSIVE GCD(_, _)
GCD(a, b) == IF b = 0 THEN a ELSE GCD(b, a % b)

Norm(n, d) ==
    LET g == GCD(Abs(n), d) IN <<"q", n \div g, d \div g>>

Rat(n) == <<"q", n, 1>>
Zero == Rat(0)
One == Rat(1)
Exact(v) == v[1] = "q"
IsInt(v) == Exact(v) /\ v[3] = 1

MulFits(a, b) == a = 0 \/ b = 0 \/ Abs(a) <= IntLimit \div Abs(b)
AddFits(a, b) == Abs(a) <= IntLimit - Abs(b)

\* current > 0 (calc.cpp:204); only ever asked of the input accumulator
Positive(v) == Exact(v) /\ v[2] > 0

\* right != 0 (calc.cpp:232, 241); a term stands for a value too large or
\* too fine for the exact range, which is never zero
NonZero(v) == v # Zero

\* the numerators of l and r over their least common denominator, or
\* <<>> when one of them leaves the exact range
Common(l, r) ==
    LET g == GCD(l[3], r[3])
        kl == r[3] \div g
        kr == l[3] \div g
    IN  IF MulFits(l[2], kl) /\ MulFits(r[2], kr) /\ MulFits(l[3], kl)
           /\ AddFits(l[2] * kl, r[2] * kr)
        THEN <<l[2] * kl, r[2] * kr, l[3] * kl>>
        ELSE <<>>

Add(l, r) ==
    IF r = Zero THEN l
    ELSE IF l = Zero THEN r
    ELSE IF Exact(l) /\ Exact(r) /\ Common(l, r) # <<>>
         THEN LET c == Common(l, r) IN Norm(c[1] + c[2], c[3])
         ELSE <<"ADD", l, r>>

Neg(v) == IF Exact(v) THEN <<"q", -v[2], v[3]>> ELSE <<"NEG", v>>

Sub(l, r) ==
    IF r = Zero THEN l
    ELSE IF Exact(l) /\ Exact(r) /\ Common(l, r) # <<>>
         THEN LET c == Common(l, r) IN Norm(c[1] - c[2], c[3])
         ELSE <<"SUB", l, r>>

Mul(l, r) ==
    IF Exact(l) /\ Exact(r) /\ MulFits(l[2], r[2]) /\ MulFits(l[3], r[3])
    THEN Norm(l[2] * r[2], l[3] * r[3])
    ELSE <<"MUL", l, r>>

\* left / right, right # 0
Div(l, r) ==
    IF Exact(l) /\ Exact(r) /\ MulFits(l[2], r[3]) /\ MulFits(l[3], r[2])
    THEN IF r[2] < 0 THEN Norm(-(l[2] * r[3]), l[3] * (-r[2]))
                     ELSE Norm(l[2] * r[3], l[3] * r[2])
    ELSE <<"DIV", l, r>>

\* std::fmod(left, right), right # 0: left - right * trunc(left / right),
\* with the sign of left
Fmod(l, r) ==
    IF Exact(l) /\ Exact(r) /\ MulFits(l[2], r[3]) /\ MulFits(r[2], l[3])
       /\ MulFits(l[3], r[3])
    THEN LET a == l[2] * r[3]
             b == Abs(r[2]) * l[3]
             m == Abs(a) % b
         IN Norm(IF a < 0 THEN -m ELSE m, l[3] * r[3])
    ELSE <<"REM", l, r>>

\* base^k by repeated multiplication, k >= 1 and base not in {0, 1, -1}:
\* the result leaves the exact range after at most 31 factors
RECURSIVE PowInt(_, _)
PowInt(b, k) ==
    IF k = 1 THEN b
    ELSE LET p == PowInt(b, k - 1) IN
         IF Exact(p) THEN Mul(p, b) ELSE p

\* std::pow(left, right); right is a parsed argument, so never negative
Pow(l, r) ==
    IF r = Zero \/ l = One THEN One
    ELSE IF l = Zero THEN Zero
    ELSE IF l = Rat(-1) /\ IsInt(r) THEN (IF r[2] % 2 = 0 THEN One ELSE l)
    ELSE IF Exact(l) /\ IsInt(r) /\ r[2] <= 31
         THEN LET p == PowInt(l, r[2]) IN
              IF Exact(p) THEN p ELSE <<"POW", l, r>>
         ELSE <<"POW", l, r>>

SqrtBound(n) == IF n < 46340 THEN n ELSE 46340
IsSquare(n) == \E k \in 0..SqrtBound(n) : k * k = n
ISqrt(n) == CHOOSE k \in 0..SqrtBound(n) : k * k = n

\* std::sqrt(current), current > 0
Sqrt(v) ==
    IF Exact(v) /\ IsSquare(v[2]) /\ IsSquare(v[3])
    THEN <<"q", ISqrt(v[2]), ISqrt(v[3])>>
    ELSE <<"SQRT", v>>

\* ------------------------------------------------------------ characters
DigitChars == {"0", "1", "2", "3", "4", "5", "6", "7", "8", "9"}

DigitVal(c) ==
    CASE c = "0" -> 0 [] c = "1" -> 1 [] c = "2" -> 2 [] c = "3" -> 3
      [] c = "4" -> 4 [] c = "5" -> 5 [] c = "6" -> 6 [] c = "7" -> 7
      [] c = "8" -> 8 [] c = "9" -> 9

\* the characters std::isspace accepts in the "C" locale ("VT" stands for
\* the vertical tab)
IsSpace(c) == c \in {" ", "\t", "\n", "\r", "\f", "VT"}

\* line[i] of a std::string: the terminating '\0' at i = size()
At(line, i) == IF i >= 0 /\ i < Len(line) THEN line[i + 1] ELSE "NUL"

\* ------------------------------------------------------------- arity
arity(o) ==
    CASE o = "ERR" -> 0
      [] o \in {"NEG", "SQRT"} -> 1
      [] o \in {"SET", "ADD", "SUB", "MUL", "DIV", "REM", "POW"} -> 2

\* ----------------------------------------------------------- parse_op
\* rollback without the fold adjustment
rollback_NoFold(i, fold, n) == i - n

\* the rollback lambda: the cursor after it
rollback(i, fold, n) == (IF fold THEN i - 1 ELSE i) - n

\* checkFold looking only for the end of the line
checkFold_EndOnly(line, i, fold) ==
    IF ~fold THEN [ok |-> TRUE, i |-> i]
    ELSE IF i >= Len(line) THEN [ok |-> FALSE, i |-> i]
    ELSE [ok |-> TRUE, i |-> i + 1]

\* the checkFold lambda: whether it passed, and the cursor after it
checkFold(line, i, fold) ==
    IF ~fold THEN [ok |-> TRUE, i |-> i]
    ELSE IF i >= Len(line) THEN [ok |-> FALSE, i |-> i]
    ELSE [ok |-> At(line, i) = ")", i |-> i + 1]

Checked(o, line, i, fold) ==
    LET cf == checkFold(line, i, fold) IN
    IF cf.ok THEN [op |-> o, i |-> cf.i, fold |-> fold, diag |-> <<>>]
    ELSE [op |-> "ERR", i |-> cf.i, fold |-> fold, diag |-> <<"bad_fold">>]

Unknown(i, fold, n) ==
    [op |-> "ERR", i |-> rollback(i, fold, n), fold |-> fold,
     diag |-> <<"unknown_op">>]

OpChars == {"+", "-", "*", "/", "%", "_", "^"}

OpOfChar(c) ==
    CASE c = "+" -> "ADD" [] c = "-" -> "SUB" [] c = "*" -> "MUL"
      [] c = "/" -> "DIV" [] c = "%" -> "REM" [] c = "_" -> "NEG"
      [] c = "^" -> "POW"

\* parse_op(line, i, fold) called with i = 0, fold = false
parse_op(line) ==
    LET fold == At(line, 0) = "("
        i0 == IF fold THEN 1 ELSE 0
        c == At(line, i0)
        i1 == i0 + 1
    IN  IF c \in DigitChars THEN Checked("SET", line, i1 - 1, fold)
        ELSE IF c \in OpChars THEN Checked(OpOfChar(c), line, i1, fold)
        ELSE IF c = "S" THEN
            IF At(line, i1) = "Q" THEN
                IF At(line, i1 + 1) = "R" THEN
                    IF At(line, i1 + 2) = "T"
                    THEN Checked("SQRT", line, i1 + 3, fold)
                    ELSE Unknown(i1 + 3, fold, 4)
                ELSE Unknown(i1 + 2, fold, 3)
            ELSE Unknown(i1 + 1, fold, 2)
        ELSE Unknown(i1, fold, 1)

\* ------------------------------------------------------ unary, binary
unary(cur, o) ==
    CASE o = "NEG" -> [val |-> Neg(cur), diag |-> <<>>]
      [] o = "SQRT" ->
            IF Positive(cur) THEN [val |-> Sqrt(cur), diag |-> <<>>]
            ELSE [val |-> cur, diag |-> <<"bad_sqrt">>]
      [] OTHER -> [val |-> cur, diag |-> <<>>]

\* binary(op, left, right, res): ok is the returned flag, res the value
\* stored through the reference (left untouched on failure)
binary(o, left, right) ==
    CASE o = "SET" -> [ok |-> TRUE, res |-> right, diag |-> <<>>]
      [] o = "ADD" -> [ok |-> TRUE, res |-> Add(left, right), diag |-> <<>>]
      [] o = "SUB" -> [ok |-> TRUE, res |-> Sub(left, right), diag |-> <<>>]
      [] o = "MUL" -> [ok |-> TRUE, res |-> Mul(left, right), diag |-> <<>>]
      [] o = "DIV" ->
            IF NonZero(right)
            THEN [ok |-> TRUE, res |-> Div(left, right), diag |-> <<>>]
            ELSE [ok |-> FALSE, res |-> left, diag |-> <<"div_zero">>]
      [] o = "REM" ->
            IF NonZero(right)
            THEN [ok |-> TRUE, res |-> Fmod(left, right), diag |-> <<>>]
            ELSE [ok |-> FALSE, res |-> left, diag |-> <<"rem_zero">>]
      [] o = "POW" -> [ok |-> TRUE, res |-> Pow(left, right), diag |-> <<>>]
      [] OTHER -> [ok |-> FALSE, res |-> left, diag |-> <<>>]

\* --------------------------------------------------------------- state
VARIABLES
    current,     \* process_line's parameter current
    line,        \* process_line's parameter line
    pc,          \* the position in process_line
    i,           \* the cursor
    fold,        \* the fold flag
    op,          \* the recognized operation
    arg,         \* parse_arg's res (process_line's arg)
    count,       \* parse_arg: digits consumed
    good,        \* parse_arg
    ongoing,     \* parse_arg
    integer,     \* parse_arg
    fraction,    \* parse_arg
    old_i,       \* the cursor before parse_arg
    success,     \* what parse_arg returned
    error,       \* process_line
    argCounter,  \* process_line
    newValue,    \* process_line
    result,      \* the value process_line returns
    diag         \* the messages written to std::cerr, in order

vars == <<current, line, pc, i, fold, op, arg, count, good, ongoing, integer,
          fraction, old_i, success, error, argCounter, newValue, result, diag>>

NoValue == <<"none">>

\* the locals of one call as a record
Frame ==
    [pc |-> pc, i |-> i, fold |-> fold, op |-> op, arg |-> arg,
     count |-> count, good |-> good, ongoing |-> ongoing,
     integer |-> integer, fraction |-> fraction, old_i |-> old_i,
     success |-> success, error |-> error, argCounter |-> argCounter,
     newValue |-> newValue, result |-> result, diag |-> diag]

\* process_line on entry: i = 0, fold = false (calc.cpp:261-262)
InitFrame ==
    [pc |-> "parse_op", i |-> 0, fold |-> FALSE, op |-> "ERR", arg |-> Zero,
     count |-> 0, good |-> TRUE, ongoing |-> TRUE, integer |-> TRUE,
     fraction |-> One, old_i |-> 0, success |-> TRUE, error |-> FALSE,
     argCounter |-> 0, newValue |-> NoValue, result |-> NoValue,
     diag |-> <<>>]

\* ------------------------------------------------- process_line, by step
\* const auto op = parse_op(line, i, fold)
StepParseOp(f, ln) ==
    LET r == parse_op(ln) IN
    [f EXCEPT !.pc = "dispatch", !.op = r.op, !.i = r.i, !.fold = r.fold,
              !.diag = r.diag]

\* the running value returned whatever the error flag
ReturnValue_Running(f, cur) == f.newValue

\* what process_line returns once the n-ary loop is left
ReturnValue(f, cur) == IF f.error THEN cur ELSE f.newValue

Return(f, cur) == [f EXCEPT !.pc = "done", !.result = ReturnValue(f, cur)]

\* switch (arity(op)): case 1 and default whole, case 2 up to the loop
StepDispatch(f, ln, cur) ==
    CASE arity(f.op) = 2 ->
            [f EXCEPT !.pc = "skip_ws", !.error = FALSE, !.argCounter = 0,
                      !.newValue = cur]
      [] arity(f.op) = 1 ->
            IF f.i < Len(ln)
            THEN [f EXCEPT !.pc = "done", !.result = cur,
                           !.diag = Append(@, "unary_suffix")]
            ELSE LET u == unary(cur, f.op) IN
                 [f EXCEPT !.pc = "done", !.result = u.val,
                           !.diag = @ \o u.diag]
      [] OTHER -> [f EXCEPT !.pc = "done", !.result = cur]

\* skip_ws: its loop condition, one iteration, and the return into
\* process_line (old_i = i, then parse_arg's initialisation)
SkipWsCond(f, ln) == f.i < Len(ln) /\ IsSpace(At(ln, f.i))

StepSkipWsLoop(f, ln) == [f EXCEPT !.i = @ + 1]

StepSkipWsExit(f, ln) ==
    [f EXCEPT !.pc = "parse_arg", !.old_i = f.i, !.arg = Zero, !.count = 0,
              !.good = TRUE, !.ongoing = TRUE, !.integer = TRUE,
              !.fraction = One]

\* the loop condition with the cap off by one
ParseArgCond_OffByOne(f, ln) ==
    f.ongoing /\ f.good /\ f.i < Len(ln) /\ f.count <= max_decimal_digits

\* parse_arg: the loop condition
ParseArgCond(f, ln) ==
    f.ongoing /\ f.good /\ f.i < Len(ln) /\ f.count < max_decimal_digits

\* (line[i] - '0') * fraction: fraction is a finite power of ten, so a
\* zero digit contributes exactly zero
Scale(d, fr) == IF d = 0 THEN Zero ELSE Mul(Rat(d), fr)

DigitCase(f, c) ==
    IF f.integer
    THEN [f EXCEPT !.arg = Add(Mul(@, Rat(10)), Rat(DigitVal(c))),
                   !.i = @ + 1, !.count = @ + 1]
    ELSE LET fr == Div(f.fraction, Rat(10)) IN
         [f EXCEPT !.fraction = fr,
                   !.arg = Add(@, Scale(DigitVal(c), fr)),
                   !.i = @ + 1, !.count = @ + 1]

\* the '.' case without ++i
DotCase_Stuck(f) == [f EXCEPT !.integer = FALSE]

DotCase(f) == [f EXCEPT !.integer = FALSE, !.i = @ + 1]

\* the ' ' case ending the token in non-fold mode too
SpaceCase_Tolerant(f) == [f EXCEPT !.ongoing = FALSE]

SpaceCase(f) ==
    IF f.fold THEN [f EXCEPT !.ongoing = FALSE]
    ELSE [f EXCEPT !.ongoing = FALSE, !.good = FALSE]

\* one iteration of parse_arg's loop
StepParseArgLoop(f, ln) ==
    LET c == At(ln, f.i) IN
    IF c \in DigitChars THEN DigitCase(f, c)
    ELSE IF c = "." THEN DotCase(f)
    ELSE IF c = " " THEN SpaceCase(f)
    ELSE [f EXCEPT !.good = FALSE]

\* parse_arg after its loop: what it reports and returns
StepParseArgExit(f, ln) ==
    IF ~f.good
    THEN [f EXCEPT !.pc = "after_arg", !.success = FALSE,
                   !.diag = Append(@, "arg_parse")]
    ELSE IF f.i < Len(ln) /\ f.count >= max_decimal_digits
    THEN [f EXCEPT !.pc = "after_arg", !.success = FALSE,
                   !.diag = Append(@, "arg_suffix")]
    ELSE [f EXCEPT !.pc = "after_arg", !.success = TRUE]

\* the end of a fold sequence without the argument count
FoldEnd_NoCount(f, ln) == f.fold /\ f.i >= Len(ln)

\* fold && i >= line.size() && argCounter >= 1
FoldEnd(f, ln) == f.fold /\ f.i >= Len(ln) /\ f.argCounter >= 1

\* the input accumulator handed to binary instead of the running value
LeftOperand_Current(f, cur) == cur

\* the left operand handed to binary
LeftOperand(f, cur) == f.newValue

\* while (fold && i < line.size())
LoopAgain(f, ln) == f.fold /\ f.i < Len(ln)

\* the rest of the loop body after parse_arg, the loop condition, and the
\* return
StepAfterArg(f, ln, cur) ==
    IF f.i = f.old_i THEN
        IF FoldEnd(f, ln) THEN Return(f, cur)
        ELSE Return([f EXCEPT !.error = TRUE,
                              !.diag = Append(@, "no_arg")], cur)
    ELSE IF ~f.success THEN Return([f EXCEPT !.error = TRUE], cur)
    ELSE LET b == binary(f.op, LeftOperand(f, cur), f.arg)
             g == [f EXCEPT !.argCounter = @ + 1, !.newValue = b.res,
                            !.diag = @ \o b.diag]
         IN  IF ~b.ok THEN Return([g EXCEPT !.error = TRUE], cur)
             ELSE IF LoopAgain(g, ln) THEN [g EXCEPT !.pc = "skip_ws"]
             ELSE Return(g, cur)

\* one step of process_line
Step(f, ln, cur) ==
    CASE f.pc = "parse_op" -> StepParseOp(f, ln)
      [] f.pc = "dispatch" -> StepDispatch(f, ln, cur)
      [] f.pc = "skip_ws" ->
            IF SkipWsCond(f, ln) THEN StepSkipWsLoop(f, ln)
            ELSE StepSkipWsExit(f, ln)
      [] f.pc = "parse_arg" ->
            IF ParseArgCond(f, ln) THEN StepParseArgLoop(f, ln)
            ELSE StepParseArgExit(f, ln)
      [] f.pc = "after_arg" -> StepAfterArg(f, ln, cur)
      [] OTHER -> f

RECURSIVE Run(_, _, _)
Run(f, ln, cur) == IF f.pc = "done" THEN f ELSE Run(Step(f, ln, cur), ln, cur)

\* process_line(current, line) as a function: the final frame
process_line(cur, ln) == Run(InitFrame, ln, cur)

\* ------------------------------------------------------------- inputs
Currents == {Rat(-4), Zero, Rat(4), Rat(10)}

TailChars == {"0", "1", ".", " ", "\t", "x"}
Tails == UNION {[1..n -> TailChars] : n \in 0..MaxTail}

BinChars == {"+", "-", "*", "/", "%", "^"}

Heads ==
    {<<>>, <<"(">>}
    \cup {<<c>> : c \in OpChars}
    \cup {<<"(", c>> : c \in OpChars}
    \cup {<<"(", c, ")">> : c \in OpChars}
    \cup {<<"S">>, <<"S", "Q">>, <<"S", "Q", "R">>, <<"S", "Q", "R", "T">>,
          <<"(", "S">>, <<"(", "S", "Q">>, <<"(", "S", "Q", "R">>,
          <<"(", "S", "Q", "R", "T">>, <<"(", "S", "Q", "R", "T", ")">>}

ShortLines == {h \o t : h \in Heads, t \in Tails}

ArgTokens == {<<" ", "0">>, <<" ", "1">>, <<" ", "2">>}

RECURSIVE ArgLists(_)
ArgLists(n) ==
    IF n = 0 THEN {<<>>}
    ELSE {a \o t : a \in ArgLists(n - 1), t \in ArgTokens}

FoldHeads == {<<c>> : c \in BinChars} \cup {<<"(", c, ")">> : c \in BinChars}
Trailers == {<<>>, <<" ">>, <<" ", "x">>}

FoldLines ==
    {h \o a \o t : h \in FoldHeads,
                   a \in UNION {ArgLists(n) : n \in 1..MaxArgs},
                   t \in Trailers}

RECURSIVE Repeat(_, _)
Repeat(c, n) == IF n = 0 THEN <<>> ELSE <<c>> \o Repeat(c, n - 1)

WithDot(run, p) == SubSeq(run, 1, p) \o <<".">> \o SubSeq(run, p + 1, Len(run))

LongRuns ==
    UNION {{Repeat(c, n)} \cup {WithDot(Repeat(c, n), p) : p \in 0..n} :
           c \in {"0", "1"},
           n \in (max_decimal_digits - 1)..(max_decimal_digits + 1)}

LongHeads ==
    {<<>>, <<"+">>, <<"/", " ">>, <<"(", "+", ")", " ">>,
     <<"(", "+", ")", " ", "1", " ">>}
LongSuffixes == {<<>>, <<"1">>, <<".">>, <<" ">>, <<"x">>, <<" ", "1">>}

LongLines == {h \o r \o t : h \in LongHeads, r \in LongRuns, t \in LongSuffixes}

Examples ==
    {<<Rat(10), <<"(", "/", ")", " ", "2", " ", "0", " ", "5">>>>,
     <<Rat(0), <<"(", "+", ")", " ", "1", " ", "2", " ", "3">>>>,
     <<Rat(7), <<"+">>>>,
     <<Rat(3), <<"S", "Q", "X">>>>,
     <<Rat(-4), <<"S", "Q", "R", "T">>>>,
     <<Rat(7), <<"5">>>>,
     <<Rat(7), <<"+", "1", ".", "2", ".", "3">>>>,
     <<Rat(7), <<"(", "5", ")", " ", "1", " ", "2">>>>,
     <<Rat(7), <<"+", "\t", "1">>>>,
     <<Rat(7), <<"+", " ", "1", "\t">>>>}

Inputs == (Currents \X (ShortLines \cup FoldLines \cup LongLines)) \cup Examples

\* ------------------------------------------------------- the state machine
SetFrame(f) ==
    /\ pc' = f.pc /\ i' = f.i /\ fold' = f.fold /\ op' = f.op
    /\ arg' = f.arg /\ count' = f.count /\ good' = f.good
    /\ ongoing' = f.ongoing /\ integer' = f.integer
    /\ fraction' = f.fraction /\ old_i' = f.old_i /\ success' = f.success
    /\ error' = f.error /\ argCounter' = f.argCounter
    /\ newValue' = f.newValue /\ result' = f.result /\ diag' = f.diag
    /\ UNCHANGED <<current, line>>

Init ==
    /\ \E p \in Inputs : current = p[1] /\ line = p[2]
    /\ pc = InitFrame.pc /\ i = InitFrame.i /\ fold = InitFrame.fold
    /\ op = InitFrame.op /\ arg = InitFrame.arg /\ count = InitFrame.count
    /\ good = InitFrame.good /\ ongoing = InitFrame.ongoing
    /\ integer = InitFrame.integer /\ fraction = InitFrame.fraction
    /\ old_i = InitFrame.old_i /\ success = InitFrame.success
    /\ error = InitFrame.error /\ argCounter = InitFrame.argCounter
    /\ newValue = InitFrame.newValue /\ result = InitFrame.result
    /\ diag = InitFrame.diag

ParseOp == pc = "parse_op" /\ SetFrame(StepParseOp(Frame, line))

Dispatch == pc = "dispatch" /\ SetFrame(StepDispatch(Frame, line, current))

SkipWsLoop ==
    pc = "skip_ws" /\ SkipWsCond(Frame, line)
    /\ SetFrame(StepSkipWsLoop(Frame, line))

SkipWsExit ==
    pc = "skip_ws" /\ ~SkipWsCond(Frame, line)
    /\ SetFrame(StepSkipWsExit(Frame, line))

ParseArgLoop ==
    pc = "parse_arg" /\ ParseArgCond(Frame, line)
    /\ SetFrame(StepParseArgLoop(Frame, line))

ParseArgExit ==
    pc = "parse_arg" /\ ~ParseArgCond(Frame, line)
    /\ SetFrame(StepParseArgExit(Frame, line))

AfterArg == pc = "after_arg" /\ SetFrame(StepAfterArg(Frame, line, current))

Next ==
    \/ ParseOp
    \/ Dispatch
    \/ SkipWsLoop
    \/ SkipWsExit
    \/ ParseArgLoop
    \/ ParseArgExit
    \/ AfterArg

Spec == Init /\ [][Next]_vars

\* ------------------------------------------------ vocabulary of the claims
\* the diagnostics that report a failed evaluation (a bad SQRT operand is
\* reported, but the call returns normally)
FailureKinds ==
    {"unknown_op", "bad_fold", "arg_parse", "arg_suffix", "no_arg",
     "div_zero", "rem_zero", "unary_suffix"}

Reported(kinds) == \E k \in 1..Len(diag) : diag[k] \in kinds

Failed == Reported(FailureKinds)

DigitCount(s) == Cardinality({k \in 1..Len(s) : s[k] \in DigitChars})
DotCount(s) == Cardinality({k \in 1..Len(s) : s[k] = "."})

\* a well-formed number: digits with at most one '.', at least one and at
\* most cap digits, and no '.' after a cap-th digit
IsNumber(s, cap) ==
    /\ \A k \in 1..Len(s) : s[k] \in DigitChars \cup {"."}
    /\ DotCount(s) <= 1
    /\ DigitCount(s) >= 1
    /\ DigitCount(s) <= cap
    /\ DigitCount(s) = cap => s[Len(s)] \in DigitChars

\* the text parse_arg consumed in the current (or last) call
Consumed == SubSeq(line, old_i + 1, i)

\* the longest run of digits and dots of ln from 0-based position k
RECURSIVE TokenAt(_, _)
TokenAt(ln, k) ==
    IF k < Len(ln) /\ At(ln, k) \in DigitChars \cup {"."}
    THEN <<At(ln, k)>> \o TokenAt(ln, k + 1)
    ELSE <<>>

\* s cut at its single spaces: " 1 2" gives << <<>>, <<"1">>, <<"2">> >>
RECURSIVE Split(_)
Split(s) ==
    IF s = <<>> THEN << <<>> >>
    ELSE LET r == Split(Tail(s)) IN
         IF Head(s) = " " THEN << <<>> >> \o r
         ELSE << <<Head(s)>> \o r[1] >> \o Tail(r)

RECURSIVE StripWs(_)
StripWs(s) == IF s # <<>> /\ IsSpace(Head(s)) THEN StripWs(Tail(s)) ELSE s

RECURSIVE TrimRight(_)
TrimRight(s) ==
    IF s # <<>> /\ s[Len(s)] = " " THEN TrimRight(SubSeq(s, 1, Len(s) - 1))
    ELSE s

\* the value of a number token: what parse_arg's loop makes of it
RECURSIVE ParseAll(_, _)
ParseAll(f, tok) ==
    IF ParseArgCond(f, tok) THEN ParseAll(StepParseArgLoop(f, tok), tok)
    ELSE f

ArgValue(tok) == ParseAll([InitFrame EXCEPT !.pc = "parse_arg"], tok).arg

\* op(...op(op(acc, a1), a2)..., an)
RECURSIVE FoldL(_, _, _)
FoldL(o, acc, toks) ==
    IF toks = <<>> THEN acc
    ELSE FoldL(o, binary(o, acc, ArgValue(Head(toks))).res, Tail(toks))

\* the arguments of a fold line "(c)" followed by n >= 1 numbers, each after
\* a single space
FoldArgs(ln) == Tail(Split(SubSeq(ln, 4, Len(ln))))

IsFoldLine(ln) ==
    /\ Len(ln) >= 5
    /\ ln[1] = "(" /\ ln[2] \in BinChars /\ ln[3] = ")" /\ ln[4] = " "
    /\ Len(FoldArgs(ln)) >= 1
    /\ \A k \in 1..Len(FoldArgs(ln)) :
            IsNumber(FoldArgs(ln)[k], max_decimal_digits)

\* an argument of max_decimal_digits digits is the last one
CappedIsLast(toks) ==
    \A k \in 1..Len(toks) :
        DigitCount(toks[k]) = max_decimal_digits => k = Len(toks)

NoZeroDivisor(ln) ==
    ln[2] \in {"/", "%"} =>
        \A k \in 1..Len(FoldArgs(ln)) : ArgValue(FoldArgs(ln)[k]) # Zero

\* a non-fold binary instruction: an operation token, optional whitespace,
\* one number (Set has no token: the number starts the line)
NumberOf(ln) ==
    IF ln # <<>> /\ ln[1] \in BinChars THEN StripWs(Tail(ln)) ELSE ln

IsBinaryLine(ln) ==
    /\ ln # <<>>
    /\ ln[1] \in BinChars \cup DigitChars
    /\ IsNumber(NumberOf(ln), max_decimal_digits)

OpOfLine(ln) == IF ln[1] \in BinChars THEN OpOfChar(ln[1]) ELSE "SET"

\* what one application of the line's operation gives: the accumulator
\* unchanged for a zero divisor
Applied(cur, ln) ==
    LET b == binary(OpOfLine(ln), cur, ArgValue(NumberOf(ln))) IN
    IF b.ok THEN b.res ELSE cur

\* parse_op's keyword mismatches, read off the line
KeywordMismatch(ln) ==
    LET b == IF At(ln, 0) = "(" THEN 1 ELSE 0
        c == At(ln, b)
    IN  \/ c \notin DigitChars \cup OpChars \cup {"S"}
        \/ /\ c = "S"
           /\ <<At(ln, b + 1), At(ln, b + 2), At(ln, b + 3)>> # <<"Q", "R", "T">>

\* ---------------------------------------------------------------- claims

\* C1: whenever the evaluation fails (any failure diagnostic was reported),
\* process_line returns the input accumulator; in particular a fold line
\* whose k-th argument is a zero divisor returns it, not the running value.
C1_FailureKeepsAccumulator ==
    /\ (pc = "done" /\ Failed) => result = current
    /\ (pc = "done" /\ error) => (Failed /\ result = current)
    /\ (pc = "done" /\ IsFoldLine(line) /\ ~NoZeroDivisor(line))
        => (Failed /\ result = current)

C1_Witness ==
    /\ pc = "done" /\ fold /\ Reported({"div_zero"})
    /\ argCounter >= 2 /\ newValue # current /\ result = current

\* C2 as claimed: a fold line "(op)" with n >= 1 well-formed arguments (up
\* to max_decimal_digits digits each), each after a single space and none a
\* zero divisor, returns op(...op(op(x, a1), a2)..., an) after exactly n
\* applications; a non-fold line applies the operation at most once.
C2_Original ==
    /\ (pc = "done" /\ IsFoldLine(line) /\ NoZeroDivisor(line)) =>
            /\ result = FoldL(op, current, FoldArgs(line))
            /\ argCounter = Len(FoldArgs(line))
    /\ ~fold => argCounter <= 1

\* C2 amended: the same, provided an argument of max_decimal_digits digits
\* is the last one.
C2_FoldThreads ==
    /\ (pc = "done" /\ IsFoldLine(line) /\ CappedIsLast(FoldArgs(line))
        /\ NoZeroDivisor(line)) =>
            /\ result = FoldL(op, current, FoldArgs(line))
            /\ argCounter = Len(FoldArgs(line))
            /\ ~Failed
    /\ ~fold => argCounter <= 1

C2_Witness ==
    /\ pc = "done" /\ IsFoldLine(line) /\ CappedIsLast(FoldArgs(line))
    /\ NoZeroDivisor(line)
    /\ Len(FoldArgs(line)) >= 2 /\ argCounter = Len(FoldArgs(line))
    /\ result # current
    /\ result # binary(op, current, ArgValue(FoldArgs(line)[1])).res

\* C3 as claimed: for a valid non-fold binary instruction the returned value
\* is the same with one or more spaces appended to the line.
C3_Original ==
    (pc = "done" /\ IsBinaryLine(line)) =>
        \A k \in 1..2 :
            process_line(current, line \o Repeat(" ", k)).result = result

\* C3 amended: a valid non-fold binary instruction followed by one or more
\* spaces fails in parse_arg, and process_line returns the accumulator
\* unchanged, whatever the instruction alone returns.
C3_TrailingSpaceFails ==
    (pc = "done" /\ line # TrimRight(line) /\ IsBinaryLine(TrimRight(line)))
        => /\ result = current
           /\ Reported({"arg_parse", "arg_suffix"})

\* a valid non-fold binary instruction returns the operation applied once
BinaryLineApplies ==
    (pc = "done" /\ IsBinaryLine(line)) => result = Applied(current, line)

C3_Witness ==
    /\ pc = "done" /\ line # TrimRight(line) /\ IsBinaryLine(TrimRight(line))
    /\ result = current
    /\ process_line(current, TrimRight(line)).result # current

\* C4: parse_arg consumes at most max_decimal_digits digits of a token (the
\* '.' is not counted); with the line ending right after the last of them
\* the argument is accepted and applied, with anything left it is a hard
\* failure and process_line returns the accumulator unchanged.
C4_DigitCap ==
    /\ count <= max_decimal_digits
    /\ pc \in {"parse_arg", "after_arg"} =>
            /\ count = DigitCount(Consumed)
            /\ i - old_i = count + DotCount(Consumed)
    /\ (pc = "after_arg" /\ count = max_decimal_digits) =>
            (success <=> i >= Len(line))
    /\ (pc = "done" /\ arity(op) = 2 /\ count = max_decimal_digits) =>
            IF i < Len(line)
            THEN result = current /\ Reported({"arg_suffix"})
            ELSE argCounter >= 1 /\ ~Reported({"arg_suffix", "arg_parse"})

C4_Witness ==
    /\ pc = "done" /\ count = max_decimal_digits /\ i < Len(line)
    /\ argCounter >= 1 /\ newValue # current
    /\ result = current /\ Reported({"arg_suffix"})

\* C5 as claimed: a failing evaluation writes exactly one diagnostic.
C5_OneDiagnostic == (pc = "done" /\ Failed) => Len(diag) = 1

\* C6 as claimed: parse_arg consumes at most one '.' per token, and a line
\* whose argument token holds a second '.' fails with the accumulator
\* unchanged.
C6_SecondDotRejected ==
    (pc = "done" /\ arity(op) = 2 /\ DotCount(TokenAt(line, old_i)) >= 2)
        => /\ DotCount(Consumed) <= 1
           /\ Failed
           /\ result = current

\* C7 as claimed: when parse_arg did not advance the cursor, fold mode with
\* at least one argument applied ends the sequence normally; anything else
\* is the missing-argument failure.
C7_Original ==
    [][(pc = "after_arg" /\ i = old_i) =>
        IF fold /\ argCounter >= 1
        THEN pc' = "done" /\ result' = newValue /\ diag' = diag
        ELSE /\ pc' = "done" /\ result' = current
             /\ diag' = Append(diag, "no_arg")]_vars

\* C7 amended: the sequence ends normally only if, besides, the cursor has
\* reached the end of the line; with text left it is the failure.
C7_NoArgument ==
    [][(pc = "after_arg" /\ i = old_i) =>
        IF fold /\ argCounter >= 1 /\ i >= Len(line)
        THEN pc' = "done" /\ result' = newValue /\ diag' = diag
        ELSE /\ pc' = "done" /\ result' = current
             /\ diag' = Append(diag, "no_arg")]_vars

C7_Witness ==
    /\ pc = "done" /\ fold /\ argCounter >= 1 /\ i = old_i /\ i >= Len(line)
    /\ diag = <<>> /\ result = newValue /\ result # current

\* C8: on a keyword mismatch parse_op returns Error with the cursor back at
\* 0, with or without a consumed '(', and the cursor never goes below 0.
C8_RollbackToStart ==
    /\ i >= 0
    /\ (pc # "parse_op" /\ KeywordMismatch(line)) =>
            /\ op = "ERR" /\ i = 0 /\ diag = <<"unknown_op">>
            /\ fold = (At(line, 0) = "(")
    /\ (pc # "parse_op" /\ Reported({"unknown_op"})) => KeywordMismatch(line)

C8_Witness ==
    /\ pc = "dispatch" /\ fold /\ i = 0 /\ op = "ERR"
    /\ Len(line) = 4 /\ At(line, 1) = "S" /\ At(line, 2) = "Q"
    /\ At(line, 3) = "R"

\* a measure of the work left: lexicographic in (line left at the start of
\* the loop iteration, position in the iteration, line left in parse_arg)
RankWidth == 2 * Len(line) + 3

Rank ==
    CASE pc = "parse_op" -> (Len(line) + 1) * 4 * RankWidth + 2
      [] pc = "dispatch" -> (Len(line) + 1) * 4 * RankWidth + 1
      [] pc = "skip_ws" -> (Len(line) - i) * 4 * RankWidth + 3 * RankWidth
      [] pc = "parse_arg" ->
            (Len(line) - old_i) * 4 * RankWidth + 2 * RankWidth
            + 2 * (Len(line) - i) + (IF ongoing /\ good THEN 1 ELSE 0)
      [] pc = "after_arg" -> (Len(line) - old_i) * 4 * RankWidth + RankWidth
      [] OTHER -> 0

\* C9: process_line terminates: every step decreases Rank, which stays a
\* natural number; an iteration of skip_ws's or parse_arg's loop advances the
\* cursor or ends the loop, the fold loop repeats only with the cursor
\* advanced, and the operation is applied at most Len(line) times.
C9_Terminates ==
    [][/\ Rank' < Rank /\ Rank' >= 0
       /\ (pc = "skip_ws" /\ pc' = "skip_ws") => i' > i
       /\ (pc = "parse_arg" /\ pc' = "parse_arg") =>
            (i' > i \/ ~(ongoing' /\ good'))
       /\ (pc = "after_arg" /\ pc' = "skip_ws") => (i > old_i /\ i' = i)
       /\ argCounter' <= Len(line)]_vars

C9_Witness ==
    /\ pc = "done" /\ fold /\ argCounter >= 2 /\ i = Len(line)
    /\ argCounter < Len(line)

\* C10: a line starting with '(' is never recognized as Set; '(' followed by
\* a digit fails the closing-marker check at the digit, and process_line
\* returns the accumulator unchanged.
C10_NoFoldedSet ==
    /\ At(line, 0) = "(" => op # "SET"
    /\ fold => op # "SET"
    /\ (pc # "parse_op" /\ At(line, 0) = "(" /\ At(line, 1) \in DigitChars) =>
            /\ op = "ERR" /\ diag = <<"bad_fold">>
            /\ pc = "done" => result = current

C10_Witness ==
    /\ pc = "done" /\ At(line, 0) = "(" /\ At(line, 1) \in DigitChars
    /\ At(line, 2) = ")"
    /\ op = "ERR" /\ result = current

====
